---- MODULE Spec2Model ----
(***************************************************************************)
(* Model of the camina-drummer MIDI practice player.                       *)
(*                                                                         *)
(*   src/midi_player.py   MidiPlayer.play / MidiPlayer.stop and the        *)
(*                        worker thread _play_thread_func                  *)
(*   src/main.py          the controller (Kivy main thread): the play and  *)
(*                        stop buttons and the two mute checkboxes         *)
(*   src/utils/tempo.py   TempoUtil.calculate_tempo_factor and             *)
(*                        TempoUtil.detect_original_bpm                    *)
(*   src/midi_player.py   estimate_midi_bpm                                *)
(*                                                                         *)
(* Spec is the player: the controller is one thread, its calls never       *)
(* overlap each other, but every worker thread runs concurrently with it.  *)
(* A worker is modelled at statement granularity: thread start, sink       *)
(* acquisition (lines 67-77), the loop head with the stop-flag test        *)
(* (80-85), the sleep, the event evaluation (86-99) and the sink release   *)
(* (101).  stop() is two steps, before and after its bounded join; the     *)
(* join times out only while the worker is inside a time.sleep.            *)
(*                                                                         *)
(* SpecFair is Spec with the scheduling of the threads: every started     *)
(* worker keeps running and a join on a terminated worker returns.         *)
(*                                                                         *)
(* SpecTempo is the tempo analysis: Init draws a file, the actions apply   *)
(* detect_original_bpm, estimate_midi_bpm and calculate_tempo_factor to    *)
(* it.  Floats are exact rationals, with the special values inf and nan.   *)
(***************************************************************************)
EXTENDS Integers, Sequences, FiniteSets, TLC

\* ------------------------------------------------------------------ bounds
\* Number of play() calls that are accepted (worker threads ever spawned).
MaxSessions == 2

\* Number of times the bounded join of stop() may time out.
MaxTimeouts == 1

\* Longest message sequence of a file given to the tempo functions.
MaxMsgs == 3

\* ------------------------------------------------------- program constants
\* Channel index of the drum channel (channel 10, index 9).
DrumChannel == 9

\* Value of _play_thread when it is None.
NoThread == 0

\* ------------------------------------------------------------- input files
\* A message as yielded by `for msg in midi`: msg.time is the delta time in
\* seconds before the message (here in whole abstract time units).
Msg(type, time, channel, note, velocity, program) ==
    [type |-> type, time |-> time, channel |-> channel, note |-> note,
     velocity |-> velocity, program |-> program]

\* Files the controller can select.  "bad" is a file mido cannot parse.
FileSong ==
    << Msg("program_change", 1, 9, 0, 0, 5),
       Msg("note_on", 0, 9, 36, 100, 0),
       Msg("program_change", 1, 0, 0, 0, 1),
       Msg("note_off", 0, 0, 60, 64, 0) >>

FileNames == {"song", "bad"}

\* Mutant of Parses: the exception of line 55 is not caught and handled as
\* a load error, every file is played.
ParsesAlways(name) == TRUE

\* mido.MidiFile(path) raises for a file that is not a valid MIDI stream.
Parses(name) == name # "bad"

MidiFile(name) == IF name = "song" THEN FileSong ELSE << >>

\* tempo_factor arguments the controller passes to play(): the identity
\* factor and a value that lines 60-61 replace.
Factors == {0, 1}

\* ------------------------------------------------------------------- state
VARIABLES
    mute_drums,     \* MidiPlayer.mute_drums
    mute_others,    \* MidiPlayer.mute_others
    play_thread,    \* MidiPlayer._play_thread: a worker id, or NoThread
    stop_flag,      \* MidiPlayer._stop_flag
    workers,        \* the worker threads ever created, by id
    nSessions,      \* number of worker threads created so far
    ctl,            \* position of the controller thread: "idle" or "join"
    log,            \* the last message MidiPlayer wrote to its logger
    muteChanged,    \* a mute flag was set since play() last started a session
    nTimeouts,      \* number of joins that have timed out so far
    tempo           \* the controller's file, tempo input and computed factor

\* The state of the player and of its worker threads.
pvars == << mute_drums, mute_others, play_thread, stop_flag, workers,
            nSessions, ctl, log, muteChanged, nTimeouts >>

vars == << pvars, tempo >>

\* ------------------------------------------------------------------ floats
\* A Python float: an exact rational n/d in lowest terms with d > 0, or one
\* of the special values inf and nan.
RECURSIVE GCD(_, _)
GCD(a, b) == IF b = 0 THEN a ELSE GCD(b, a % b)

Abs(x) == IF x < 0 THEN -x ELSE x

Rat(n, d) ==
    LET g == GCD(Abs(n), Abs(d))
        sgn == IF d < 0 THEN -1 ELSE 1
    IN [k |-> "fin", n |-> (sgn * n) \div g, d |-> (sgn * d) \div g]

Inf == [k |-> "inf", n |-> 1, d |-> 0]
NaN == [k |-> "nan", n |-> 0, d |-> 0]
Zero == Rat(0, 1)
One == Rat(1, 1)

\* a + b and a * b of finite floats.
FAdd(a, b) == Rat(a.n * b.d + b.n * a.d, a.d * b.d)
FMul(a, b) == Rat(a.n * b.n, a.d * b.d)
FSub(a, b) == Rat(a.n * b.d - b.n * a.d, a.d * b.d)

\* a / b for a finite a and a non-zero b: x / inf is 0.0, x / nan is nan.
FDiv(a, b) ==
    CASE b.k = "inf" -> Zero
      [] b.k = "nan" -> NaN
      [] OTHER       -> Rat(a.n * b.d, a.d * b.n)

\* a > 0 and a <= 0: both are False for nan.
FPositive(a) == a.k = "inf" \/ (a.k = "fin" /\ a.n > 0)
FNotPositive(a) == a.k = "fin" /\ a.n <= 0

\* ------------------------------------------------ the controller's tempo state
\* A MIDI file as the tempo functions see it: whether mido can load it, and
\* its merged messages with their delta times in ticks.
BadFile == [ok |-> FALSE, msgs |-> << >>]

\* The text of the tempo field: nothing, an empty or blank string, text that
\* is no number, a decimal number, or the literals inf and nan.
NoText == [kind |-> "none", val |-> Zero]

\* No file selected, nothing computed.
NoTempo ==
    [loaded |-> FALSE, file |-> BadFile, shown |-> Zero,
     asked |-> FALSE, text |-> NoText, mode |-> "BPM", factor |-> Zero,
     warned |-> FALSE, estimated |-> FALSE, estimate |-> Zero]

WorkerIds == 1..MaxSessions

\* A thread object that has not been created yet.
NoWorker ==
    [pc |-> "none", file |-> "bad", factor |-> 1, idx |-> 1,
     acquired |-> 0, released |-> 0, calls |-> << >>, sent |-> << >>,
     slept |-> {}, afterStop |-> 0]

\* threading.Thread.is_alive(): started and the target has not returned.
IsAlive(w) == workers[w].pc \notin {"none", "done"}

\* The sink (fluidsynth.Synth) of a session is held from fs.start() to
\* fs.delete().
SessionActive(w) == workers[w].acquired > workers[w].released

\* stop() has set the stop flag for the session of worker w: the worker is
\* the one stop() is joining, or one whose reference stop() has dropped.
Cancelled(w) ==
    IsAlive(w) /\ (w # play_thread \/ ctl = "join")

\* stop() was called for the session of worker w and has returned while
\* the worker was alive.
StopReturned(w) == IsAlive(w) /\ w # play_thread

PlayerInit ==
    /\ mute_drums = FALSE
    /\ mute_others = FALSE
    /\ play_thread = NoThread
    /\ stop_flag = FALSE
    /\ workers = [w \in WorkerIds |-> NoWorker]
    /\ nSessions = 0
    /\ ctl = "idle"
    /\ log = "none"
    /\ muteChanged = FALSE
    /\ nTimeouts = 0

Init ==
    /\ PlayerInit
    /\ tempo = NoTempo

\* ------------------------------------------------------ controller: play()
\* Mutant of PlayRejects: the guard of line 50 is missing.
PlayRejectsNever == FALSE

\* Line 50: the guard that rejects play() while a worker is alive.
PlayRejects == play_thread # NoThread /\ IsAlive(play_thread)

\* Lines 60-61: a tempo factor <= 0 is replaced by 1.0.
EffectiveFactor(f) == IF f <= 0 THEN 1 ELSE f

\* Lines 105-106: the thread object created and started by play().
NewWorker(name, f) ==
    [NoWorker EXCEPT !.pc = "start", !.file = name,
                     !.factor = EffectiveFactor(f)]

\* Lines 50-52: already playing, warn and return.
PlayAlreadyPlaying ==
    /\ PlayRejects
    /\ log' = "already_playing"
    /\ UNCHANGED << mute_drums, mute_others, play_thread, stop_flag,
                    workers, nSessions, muteChanged >>

\* Lines 54-58: the file cannot be loaded, log the error and return.
PlayLoadError(name) ==
    /\ ~PlayRejects
    /\ ~Parses(name)
    /\ log' = "load_error"
    /\ UNCHANGED << mute_drums, mute_others, play_thread, stop_flag,
                    workers, nSessions, muteChanged >>

\* Mutant of PlayStart: the assignment of line 64 is missing, the stop flag
\* keeps the value the last stop() left.
PlayStartKeepsFlag(name, f) ==
    /\ ~PlayRejects
    /\ Parses(name)
    /\ nSessions < MaxSessions
    /\ nSessions' = nSessions + 1
    /\ workers' = [workers EXCEPT ![nSessions + 1] = NewWorker(name, f)]
    /\ play_thread' = nSessions + 1
    /\ muteChanged' = FALSE
    /\ log' = "playing"
    /\ UNCHANGED << mute_drums, mute_others, stop_flag >>

\* Lines 60-106: clear the stop flag, create and start the worker.
PlayStart(name, f) ==
    /\ ~PlayRejects
    /\ Parses(name)
    /\ nSessions < MaxSessions
    /\ stop_flag' = FALSE
    /\ nSessions' = nSessions + 1
    /\ workers' = [workers EXCEPT ![nSessions + 1] = NewWorker(name, f)]
    /\ play_thread' = nSessions + 1
    /\ muteChanged' = FALSE
    /\ log' = "playing"
    /\ UNCHANGED << mute_drums, mute_others >>

Play(name, f) ==
    /\ ctl = "idle"
    /\ UNCHANGED << ctl, nTimeouts, tempo >>
    /\ \/ PlayAlreadyPlaying
       \/ PlayLoadError(name)
       \/ PlayStart(name, f)

\* ------------------------------------------------------ controller: stop()
\* Mutant of StopFindsWorker: the is_alive() test of line 110 is missing.
StopFindsWorkerNoAliveTest == play_thread # NoThread

\* Line 110: the guard of stop().
StopFindsWorker == play_thread # NoThread /\ IsAlive(play_thread)

\* Lines 110-113: set the stop flag and enter the bounded join.
StopBegin ==
    /\ ctl = "idle"
    /\ StopFindsWorker
    /\ stop_flag' = TRUE
    /\ ctl' = "join"
    /\ log' = "stopping"
    /\ UNCHANGED << mute_drums, mute_others, play_thread, workers,
                    nSessions, muteChanged, nTimeouts, tempo >>

\* Lines 116-117: nothing to stop.
StopIdle ==
    /\ ctl = "idle"
    /\ ~StopFindsWorker
    /\ log' = "no_active"
    /\ UNCHANGED << mute_drums, mute_others, play_thread, stop_flag,
                    workers, nSessions, ctl, muteChanged, nTimeouts, tempo >>

\* Lines 113-115: join(timeout=1.0) returns because the worker has
\* terminated; the reference is dropped and stop() returns.
JoinCompletes ==
    /\ ctl = "join"
    /\ ~IsAlive(play_thread)
    /\ play_thread' = NoThread
    /\ ctl' = "idle"
    /\ log' = "stopped"
    /\ UNCHANGED << mute_drums, mute_others, stop_flag, workers, nSessions,
                    muteChanged, nTimeouts, tempo >>

\* Lines 113-115: join(timeout=1.0) returns because the timeout elapsed
\* with the worker still alive, inside a time.sleep(wait) that outlasts the
\* timeout; the reference is dropped all the same.
JoinTimesOut ==
    /\ ctl = "join"
    /\ workers[play_thread].pc = "sleep"
    /\ nTimeouts < MaxTimeouts
    /\ nTimeouts' = nTimeouts + 1
    /\ play_thread' = NoThread
    /\ ctl' = "idle"
    /\ log' = "stopped"
    /\ UNCHANGED << mute_drums, mute_others, stop_flag, workers, nSessions,
                    muteChanged, tempo >>

\* ------------------------------------------- controller: the mute checkboxes
\* src/main.py line 74: the checkbox sets player.mute_drums to its new value.
SetMuteDrums(v) ==
    /\ ctl = "idle"
    /\ v # mute_drums
    /\ mute_drums' = v
    /\ muteChanged' = TRUE
    /\ UNCHANGED << mute_others, play_thread, stop_flag, workers,
                    nSessions, ctl, log, nTimeouts, tempo >>

\* src/main.py line 80: the checkbox sets player.mute_others.
SetMuteOthers(v) ==
    /\ ctl = "idle"
    /\ v # mute_others
    /\ mute_others' = v
    /\ muteChanged' = TRUE
    /\ UNCHANGED << mute_drums, play_thread, stop_flag, workers,
                    nSessions, ctl, log, nTimeouts, tempo >>

\* ------------------------------------------------------- the worker thread
CurrentMsg(w) == MidiFile(workers[w].file)[workers[w].idx]

\* Line 83: the scaled wait before a message.
WaitOf(msg, factor) == msg.time * factor

\* Mutant of IsMuted: the two channel tests are swapped.
IsMutedSwapped(channel, md, mo) ==
    (md /\ channel # DrumChannel) \/ (mo /\ channel = DrumChannel)

\* Lines 87 and 92: the mute condition of a note message.
IsMuted(channel, md, mo) ==
    (md /\ channel = DrumChannel) \/ (mo /\ channel # DrumChannel)

\* Mutant of MuteFlagsRead: the worker uses the flags as __init__ set them
\* and never reads them again.
MuteFlagsStale(w) == << FALSE, FALSE >>

\* Lines 87 and 92 read self.mute_drums and self.mute_others of the player
\* at the moment the message is evaluated.
MuteFlagsRead(w) == << mute_drums, mute_others >>

\* Lines 86-90: fs.noteon(channel, note, velocity) unless muted.
NoteOnCalls(msg, md, mo) ==
    IF IsMuted(msg.channel, md, mo)
    THEN << >>
    ELSE << << "noteon", msg.channel, msg.note, msg.velocity >> >>

\* Lines 91-95: fs.noteoff(channel, note) unless muted.
NoteOffCalls(msg, md, mo) ==
    IF IsMuted(msg.channel, md, mo)
    THEN << >>
    ELSE << << "noteoff", msg.channel, msg.note >> >>

\* Lines 96-97: fs.program_change(channel, program).
ProgramChangeCall(msg) == << "program_change", msg.channel, msg.program >>

\* Mutant of ProgramChangeCalls: the program change is muted like a note.
ProgramChangeCallsMuted(msg) ==
    IF IsMuted(msg.channel, mute_drums, mute_others)
    THEN << >>
    ELSE << ProgramChangeCall(msg) >>

ProgramChangeCalls(msg) == << ProgramChangeCall(msg) >>

\* Lines 86-99: the sink calls made for one message, given the stop flag
\* and the mute flags read.
SinkCalls(msg, flag, md, mo) ==
    IF msg.type = "note_on" /\ ~flag THEN NoteOnCalls(msg, md, mo)
    ELSE IF msg.type = "note_off" /\ ~flag THEN NoteOffCalls(msg, md, mo)
    ELSE IF msg.type = "program_change" THEN ProgramChangeCalls(msg)
    ELSE << >>

\* Lines 67-77: create the synth, start the audio driver, load the sound
\* font: the session acquires its sink.
AcquireSink(w) ==
    /\ workers[w].pc = "start"
    /\ workers' = [workers EXCEPT ![w].pc = "loop",
                                  ![w].acquired = @ + 1]
    /\ UNCHANGED << mute_drums, mute_others, play_thread, stop_flag,
                    nSessions, ctl, log, muteChanged, nTimeouts, tempo >>

\* Mutant of LoopHead: the wait of line 85 is skipped.
LoopHeadNoSleep(w) ==
    /\ workers[w].pc = "loop"
    /\ workers' = [workers EXCEPT ![w].pc =
          IF workers[w].idx > Len(MidiFile(workers[w].file)) THEN "delete"
          ELSE IF stop_flag THEN "delete"
          ELSE "eval"]
    /\ UNCHANGED << mute_drums, mute_others, play_thread, stop_flag,
                    nSessions, ctl, log, muteChanged, nTimeouts, tempo >>

\* Lines 80-85: next message, test of the stop flag, start of the wait.
LoopHead(w) ==
    /\ workers[w].pc = "loop"
    /\ workers' = [workers EXCEPT ![w].pc =
          IF workers[w].idx > Len(MidiFile(workers[w].file)) THEN "delete"
          ELSE IF stop_flag THEN "delete"
          ELSE IF WaitOf(CurrentMsg(w), workers[w].factor) > 0 THEN "sleep"
          ELSE "eval"]
    /\ UNCHANGED << mute_drums, mute_others, play_thread, stop_flag,
                    nSessions, ctl, log, muteChanged, nTimeouts, tempo >>

\* Line 85: time.sleep(wait) returns.
Wake(w) ==
    /\ workers[w].pc = "sleep"
    /\ workers' = [workers EXCEPT ![w].pc = "eval",
                                  ![w].slept = @ \cup {workers[w].idx}]
    /\ UNCHANGED << mute_drums, mute_others, play_thread, stop_flag,
                    nSessions, ctl, log, muteChanged, nTimeouts, tempo >>

\* Lines 86-99: evaluate the message and go to the next one.
Evaluate(w) ==
    /\ workers[w].pc = "eval"
    /\ LET out == SinkCalls(CurrentMsg(w), stop_flag,
                            MuteFlagsRead(w)[1], MuteFlagsRead(w)[2])
       IN workers' = [workers EXCEPT
             ![w].pc = "loop",
             ![w].idx = @ + 1,
             ![w].calls = @ \o out,
             ![w].sent = IF out = << >> THEN @
                         ELSE Append(@, workers[w].idx),
             ![w].afterStop = IF StopReturned(w) THEN @ + Len(out) ELSE @]
    /\ UNCHANGED << mute_drums, mute_others, play_thread, stop_flag,
                    nSessions, ctl, log, muteChanged, nTimeouts, tempo >>

\* Mutant of ReleaseSink: fs.delete() is not called before the thread
\* terminates.
ReleaseSinkSkipped(w) ==
    /\ workers[w].pc = "delete"
    /\ workers' = [workers EXCEPT
                     ![w] = [NoWorker EXCEPT
                               !.pc = "done",
                               !.acquired = workers[w].acquired,
                               !.released = workers[w].released]]
    /\ UNCHANGED << mute_drums, mute_others, play_thread, stop_flag,
                    nSessions, ctl, log, muteChanged, nTimeouts, tempo >>

\* Line 101: fs.delete() releases the sink; the thread then terminates and
\* its locals and the synth with everything it received are gone.
ReleaseSink(w) ==
    /\ workers[w].pc = "delete"
    /\ workers' = [workers EXCEPT
                     ![w] = [NoWorker EXCEPT
                               !.pc = "done",
                               !.acquired = workers[w].acquired,
                               !.released = workers[w].released + 1]]
    /\ UNCHANGED << mute_drums, mute_others, play_thread, stop_flag,
                    nSessions, ctl, log, muteChanged, nTimeouts, tempo >>

\* ----------------------------------------------------------- specification
Next ==
    \/ \E name \in FileNames, f \in Factors : Play(name, f)
    \/ StopBegin
    \/ StopIdle
    \/ JoinCompletes
    \/ JoinTimesOut
    \/ \E v \in BOOLEAN : SetMuteDrums(v)
    \/ \E v \in BOOLEAN : SetMuteOthers(v)
    \/ \E w \in WorkerIds : AcquireSink(w)
    \/ \E w \in WorkerIds : LoopHead(w)
    \/ \E w \in WorkerIds : Wake(w)
    \/ \E w \in WorkerIds : Evaluate(w)
    \/ \E w \in WorkerIds : ReleaseSink(w)

Spec == Init /\ [][Next]_vars

\* The next statement of worker thread w, whatever its position.
WorkerStep(w) ==
    \/ AcquireSink(w)
    \/ LoopHead(w)
    \/ Wake(w)
    \/ Evaluate(w)
    \/ ReleaseSink(w)

\* The scheduler runs every started worker thread: its next statement
\* (lines 66-103) is eventually executed, a time.sleep(wait) returns, and a
\* join on a terminated thread returns to stop().
Fairness ==
    /\ \A w \in WorkerIds : WF_vars(WorkerStep(w))
    /\ WF_vars(JoinCompletes)

SpecFair == Init /\ [][Next]_vars /\ Fairness

TypeOK ==
    /\ mute_drums \in BOOLEAN
    /\ mute_others \in BOOLEAN
    /\ play_thread \in {NoThread} \cup WorkerIds
    /\ stop_flag \in BOOLEAN
    /\ nSessions \in 0..MaxSessions
    /\ ctl \in {"idle", "join"}
    /\ nTimeouts \in 0..MaxTimeouts
    /\ log \in {"none", "already_playing", "load_error", "playing",
                "stopping", "stopped", "no_active"}

\* --------------------------------------------------------- tempo analysis
\* midi.ticks_per_beat of the files considered (line 129).
TicksPerBeat == 480

\* The MIDI default tempo in microseconds per quarter note (line 130).
DefaultTempo == 500000

TempoValues == {250000, 500000}
TickValues == {0, 1920}

\* The messages of a file: tempo changes, other meta messages and channel
\* messages, each with its delta time in ticks.
TempoMsgs ==
    [type : {"set_tempo"}, ticks : TickValues, tempo : TempoValues]
      \cup [type : {"marker", "note_on"}, ticks : TickValues, tempo : {0}]

TempoFiles ==
    {BadFile} \cup
    { [ok |-> TRUE, msgs |-> m] :
        m \in UNION { [1..n -> TempoMsgs] : n \in 0..MaxMsgs } }

\* mido.tick2second(tick, ticks_per_beat, tempo) = tick * tempo * 1e-6 / tpb.
Tick2Second(tick, tpb, tmp) == FMul(tick, Rat(tmp, 1000000 * tpb))

\* mido.tempo2bpm(tempo) = 60e6 / tempo.
Tempo2Bpm(tmp) == Rat(60000000, tmp)

IsMeta(msg) == msg.type \in {"set_tempo", "marker"}

\* `for msg in midi`: the tempo in force before message i is the tempo of the
\* last set_tempo before it, the default tempo if there is none ...
RECURSIVE RunningTempo(_, _)
RunningTempo(msgs, i) ==
    IF i = 1 THEN DefaultTempo
    ELSE IF msgs[i - 1].type = "set_tempo" THEN msgs[i - 1].tempo
    ELSE RunningTempo(msgs, i - 1)

\* ... and each message is yielded with its delta time converted from ticks
\* to seconds at that tempo.
Iterate(msgs) ==
    [i \in 1..Len(msgs) |->
        [type  |-> msgs[i].type,
         time  |-> IF msgs[i].ticks > 0
                   THEN Tick2Second(Rat(msgs[i].ticks, 1), TicksPerBeat,
                                    RunningTempo(msgs, i))
                   ELSE Zero,
         tempo |-> msgs[i].tempo]]

\* Lines 137-140: absolute_tick after message i, the sum of msg.time over
\* the meta messages up to i (the other messages are skipped by `continue`).
RECURSIVE AbsoluteTick(_, _)
AbsoluteTick(it, i) ==
    IF i = 0 THEN Zero
    ELSE IF IsMeta(it[i]) THEN FAdd(AbsoluteTick(it, i - 1), it[i].time)
    ELSE AbsoluteTick(it, i - 1)

\* Lines 137-142: the list tempo_changes.
RECURSIVE TempoChanges(_, _)
TempoChanges(it, i) ==
    IF i = 0 THEN << >>
    ELSE IF it[i].type = "set_tempo"
         THEN Append(TempoChanges(it, i - 1),
                     [tick |-> AbsoluteTick(it, i), tempo |-> it[i].tempo])
         ELSE TempoChanges(it, i - 1)

\* Line 149: total_ticks = sum(msg.time for msg in midi).
RECURSIVE TotalTicks(_, _)
TotalTicks(it, i) ==
    IF i = 0 THEN Zero ELSE FAdd(TotalTicks(it, i - 1), it[i].time)

\* Lines 153-156: delta_seconds of segment i.
DeltaSeconds(changes, i) ==
    Tick2Second(FSub(changes[i + 1].tick, changes[i].tick), TicksPerBeat,
                changes[i].tempo)

\* Lines 152-158: weighted_bpm_sum after the first i segments.
RECURSIVE WeightedBpmSum(_, _)
WeightedBpmSum(changes, i) ==
    IF i = 0 THEN Zero
    ELSE FAdd(WeightedBpmSum(changes, i - 1),
              FMul(Tempo2Bpm(changes[i].tempo), DeltaSeconds(changes, i)))

\* Lines 152-159: total_seconds after the first i segments.
RECURSIVE TotalSeconds(_, _)
TotalSeconds(changes, i) ==
    IF i = 0 THEN Zero
    ELSE FAdd(TotalSeconds(changes, i - 1), DeltaSeconds(changes, i))

\* Lines 119-173: estimate_midi_bpm.
EstimateMidiBpm(file) ==
    IF ~file.ok THEN Rat(120, 1)
    ELSE
      LET it == Iterate(file.msgs)
          found == TempoChanges(it, Len(it))
      IN IF found = << >> THEN Tempo2Bpm(DefaultTempo)
         ELSE
           LET changes == Append(found, [tick  |-> TotalTicks(it, Len(it)),
                                         tempo |-> 0])
               segments == Len(changes) - 1
               total_seconds == TotalSeconds(changes, segments)
           IN IF total_seconds = Zero THEN Tempo2Bpm(DefaultTempo)
              ELSE FDiv(WeightedBpmSum(changes, segments), total_seconds)

\* src/utils/tempo.py lines 39-46: the BPM of the first set_tempo message,
\* 120.0 when there is none or the file cannot be read.
RECURSIVE FirstTempoBpm(_, _)
FirstTempoBpm(msgs, i) ==
    IF i > Len(msgs) THEN Rat(120, 1)
    ELSE IF msgs[i].type = "set_tempo" THEN Tempo2Bpm(msgs[i].tempo)
    ELSE FirstTempoBpm(msgs, i + 1)

DetectOriginalBpm(file) ==
    IF ~file.ok THEN Rat(120, 1) ELSE FirstTempoBpm(file.msgs, 1)

\* float(text) of line 26 and 28: the value, for a text float() accepts.
Parseable(text) == text.kind \in {"num", "inf", "nan"}

ParseFloat(text) ==
    CASE text.kind = "inf" -> Inf
      [] text.kind = "nan" -> NaN
      [] OTHER             -> text.val

\* The original BPM that calculate_tempo_factor divides by (line 31).
OriginalBpm(file) == DetectOriginalBpm(file)

\* Mutant of CalculateTempoFactor: the mode test of line 25 is missing and
\* every number is taken as a desired BPM.
CalculateTempoFactorBpmOnly(file, text, mode) ==
    IF text.kind \in {"none", "empty"}
    THEN [factor |-> One, warned |-> FALSE]
    ELSE IF ~Parseable(text)
    THEN [factor |-> One, warned |-> TRUE]
    ELSE IF FNotPositive(ParseFloat(text))
    THEN [factor |-> One, warned |-> FALSE]
    ELSE [factor |-> FDiv(OriginalBpm(file), ParseFloat(text)),
          warned |-> FALSE]

\* src/utils/tempo.py lines 20-35: calculate_tempo_factor; the result and
\* whether the warning of line 34 was logged.
CalculateTempoFactor(file, text, mode) ==
    IF text.kind \in {"none", "empty"}
    THEN [factor |-> One, warned |-> FALSE]
    ELSE IF ~Parseable(text)
    THEN [factor |-> One, warned |-> TRUE]
    ELSE IF mode = "Percentage"
    THEN [factor |-> IF FPositive(ParseFloat(text))
                     THEN FDiv(Rat(100, 1), ParseFloat(text))
                     ELSE One,
          warned |-> FALSE]
    ELSE IF FNotPositive(ParseFloat(text))
    THEN [factor |-> One, warned |-> FALSE]
    ELSE [factor |-> FDiv(OriginalBpm(file), ParseFloat(text)),
          warned |-> FALSE]

\* Texts the user can type into the tempo field for a file.
Num(v) == [kind |-> "num", val |-> v]

TempoTexts(file) ==
    { [kind |-> k, val |-> Zero] :
        k \in {"none", "empty", "blank", "junk", "inf", "nan"} }
      \cup { Num(Rat(v, 1)) : v \in {-5, 0, 50, 100, 200} }
      \cup { Num(DetectOriginalBpm(file)), Num(EstimateMidiBpm(file)) }

TempoModes == {"BPM", "Percentage"}

\* src/main.py lines 180-190: the selected file becomes the current file and
\* its original BPM is displayed.
LoadSelectedFile ==
    /\ ~tempo.loaded
    /\ tempo' = [tempo EXCEPT !.loaded = TRUE,
                              !.shown = DetectOriginalBpm(tempo.file)]
    /\ UNCHANGED pvars

\* src/main.py lines 192-198: the play button computes the tempo factor from
\* the tempo field and the mode spinner.
OnPlayTempoFactor(text, mode) ==
    /\ tempo.loaded
    /\ LET r == CalculateTempoFactor(tempo.file, text, mode)
       IN tempo' = [tempo EXCEPT !.asked = TRUE, !.text = text,
                                 !.mode = mode, !.factor = r.factor,
                                 !.warned = r.warned]
    /\ UNCHANGED pvars

\* src/midi_player.py lines 119-173: estimate_midi_bpm is called on the
\* current file and returns its estimate.
EstimateBpm ==
    /\ ~tempo.estimated
    /\ tempo' = [tempo EXCEPT !.estimated = TRUE,
                              !.estimate = EstimateMidiBpm(tempo.file)]
    /\ UNCHANGED pvars

InitTempo ==
    /\ PlayerInit
    /\ tempo \in { [NoTempo EXCEPT !.file = f] : f \in TempoFiles }

NextTempo ==
    \/ LoadSelectedFile
    \/ EstimateBpm
    \/ \E text \in TempoTexts(tempo.file), mode \in TempoModes :
          OnPlayTempoFactor(text, mode)

SpecTempo == InitTempo /\ [][NextTempo]_vars

\* ------------------------------------------------- helpers of the claims
\* Worker w evaluates its current message in this step.
EvalStep(w) == workers[w].pc = "eval" /\ workers'[w].pc = "loop"

\* The sink of worker w receives exactly the call c in this step.
Forwards(w, c) == workers'[w].calls = Append(workers[w].calls, c)

\* The sink of worker w receives nothing in this step.
ForwardsNothing(w) == workers'[w].calls = workers[w].calls

IsNote(msg) == msg.type \in {"note_on", "note_off"}

\* The mute condition of the claims, on the player's flags as they are.
MutedNow(msg) ==
    \/ mute_drums /\ msg.channel = 9
    \/ mute_others /\ msg.channel # 9

InSeq(x, seq) == \E i \in 1..Len(seq) : seq[i] = x

\* ---------------------------------------------------------------------- C1
\* C1: at most one playback session is active (holds its sink) at a time,
\* also when play() follows a stop() whose join timed out.
AtMostOneActiveSession ==
    Cardinality({w \in WorkerIds : SessionActive(w)}) <= 1

\* ---------------------------------------------------------------------- C2
\* C2: a play() call made while the current worker is alive changes nothing:
\* not the worker reference, the stop flag, the mute flags or any worker's
\* position, factor or sink calls, and it spawns no worker.
PlayWhilePlayingIsNoOp ==
    [][ ( /\ play_thread # NoThread
          /\ workers[play_thread].pc \notin {"none", "done"}
          /\ \E name \in FileNames, f \in Factors : Play(name, f) )
        => UNCHANGED << mute_drums, mute_others, play_thread, stop_flag,
                        workers, nSessions >> ]_vars

\* play() was rejected while the session had already dispatched an event.
PlayWhilePlayingWitness ==
    /\ log = "already_playing"
    /\ play_thread # NoThread
    /\ workers[play_thread].pc = "sleep"
    /\ Len(workers[play_thread].sent) > 0

\* ---------------------------------------------------------------------- C3
\* C3: when stop() returns from its join, the stopped worker has terminated
\* and its sink has been released exactly once.
StopReturnsWithSinkReleasedOnce ==
    [][ (ctl = "join" /\ ctl' = "idle")
        => /\ workers'[play_thread].pc = "done"
           /\ workers'[play_thread].released = 1 ]_vars

\* ---------------------------------------------------------------------- C4
\* C4: once stop() has set the stop flag for a session, the worker of that
\* session forwards no further event of any type to its sink.
NoDispatchAfterCancel ==
    [][ \A w \in WorkerIds :
          (Cancelled(w) /\ EvalStep(w)) => ForwardsNothing(w) ]_vars

\* ---------------------------------------------------------------------- C5
\* C5: after stop() has returned, the stopped session dispatches at most one
\* more event, whatever the controller does afterwards.
AtMostOneEventAfterStopReturns ==
    \A w \in WorkerIds : workers[w].afterStop <= 1

\* ---------------------------------------------------------------------- C6
\* C6 as stated: a note message is not forwarded when the mute condition
\* holds for the flags at evaluation time; otherwise, when the stop flag is
\* not set, it is forwarded with the same channel, note and velocity.
NotesForwardedWithVelocity ==
    [][ \A w \in WorkerIds :
          (EvalStep(w) /\ IsNote(CurrentMsg(w))) =>
            LET msg == CurrentMsg(w)
                op  == IF msg.type = "note_on" THEN "noteon" ELSE "noteoff"
            IN /\ MutedNow(msg) => ForwardsNothing(w)
               /\ (~MutedNow(msg) /\ ~stop_flag) =>
                    Forwards(w, << op, msg.channel, msg.note, msg.velocity >>)
      ]_vars

\* C6 as amended: as above, but a NoteOn is forwarded with its channel, note
\* and velocity and a NoteOff with its channel and note only.
NotesForwardedUnlessMuted ==
    [][ \A w \in WorkerIds :
          (EvalStep(w) /\ IsNote(CurrentMsg(w))) =>
            LET msg == CurrentMsg(w)
            IN /\ MutedNow(msg) => ForwardsNothing(w)
               /\ (~MutedNow(msg) /\ ~stop_flag) =>
                    IF msg.type = "note_on"
                    THEN Forwards(w, << "noteon", msg.channel, msg.note,
                                        msg.velocity >>)
                    ELSE Forwards(w, << "noteoff", msg.channel, msg.note >>)
      ]_vars

\* A session that was never stopped has evaluated the whole file: its drum
\* NoteOn was suppressed and its NoteOff on channel 0 was forwarded.
NotesForwardedWitness ==
    \E w \in WorkerIds :
        /\ w = play_thread /\ ctl = "idle"
        /\ workers[w].pc = "delete"
        /\ workers[w].idx = 5
        /\ ~InSeq(2, workers[w].sent)
        /\ InSeq(<< "noteoff", 0, 60 >>, workers[w].calls)

\* ---------------------------------------------------------------------- C7
\* C7: a ProgramChange evaluated by a session that has not been cancelled is
\* forwarded, whatever the mute flags and the channel.
ProgramChangeAlwaysForwarded ==
    [][ \A w \in WorkerIds :
          ( /\ EvalStep(w)
            /\ CurrentMsg(w).type = "program_change"
            /\ ~Cancelled(w) ) =>
            Forwards(w, << "program_change", CurrentMsg(w).channel,
                           CurrentMsg(w).program >>) ]_vars

\* With both mute flags set during the whole session, the program changes of
\* the drum channel and of channel 0 have both reached the sink.
ProgramChangeWitness ==
    \E w \in WorkerIds :
        /\ w = play_thread /\ ctl = "idle"
        /\ mute_drums /\ mute_others /\ ~muteChanged
        /\ InSeq(<< "program_change", 9, 5 >>, workers[w].calls)
        /\ InSeq(<< "program_change", 0, 1 >>, workers[w].calls)

\* ---------------------------------------------------------------------- C8
\* C8: after the controller has set a mute flag during the current session,
\* the next note the worker evaluates is forwarded exactly when the mute
\* condition is false for the flags as they are now.
MuteFlagsAreLive ==
    [][ \A w \in WorkerIds :
          ( /\ w = play_thread
            /\ muteChanged
            /\ EvalStep(w)
            /\ IsNote(CurrentMsg(w))
            /\ ~stop_flag ) =>
            ( Len(workers'[w].calls) = Len(workers[w].calls) + 1
                <=> ~MutedNow(CurrentMsg(w)) ) ]_vars

\* A mute flag was set after play() had started the session, which was never
\* stopped: its drum NoteOn was forwarded and its later NoteOff of channel 0
\* was suppressed by mute_others.
MuteFlagsAreLiveWitness ==
    \E w \in WorkerIds :
        /\ w = play_thread /\ ctl = "idle"
        /\ muteChanged /\ mute_others
        /\ workers[w].idx = 5
        /\ InSeq(2, workers[w].sent)
        /\ ~InSeq(4, workers[w].sent)

\* ---------------------------------------------------------------------- C9
\* C9: what a session has forwarded is a subsequence of its file in file
\* order, without repetition, each call made from the message at its index,
\* and a message with a positive wait is forwarded only after that wait.
DispatchInFileOrder ==
    \A w \in WorkerIds :
        LET wk == workers[w]
            file == MidiFile(wk.file)
        IN /\ Len(wk.calls) = Len(wk.sent)
           /\ \A i \in 1..Len(wk.sent) :
                /\ wk.sent[i] \in 1..Len(file)
                /\ wk.sent[i] < wk.idx
                /\ wk.calls[i][2] = file[wk.sent[i]].channel
                /\ (file[wk.sent[i]].time * wk.factor > 0)
                      => wk.sent[i] \in wk.slept
           /\ \A i, j \in 1..Len(wk.sent) :
                i < j => wk.sent[i] < wk.sent[j]

\* A session has forwarded all four messages of the song, after both waits.
DispatchInFileOrderWitness ==
    \E w \in WorkerIds :
        /\ workers[w].sent = << 1, 2, 3, 4 >>
        /\ workers[w].slept = {1, 3}

\* ------------------------------------- the estimate as the claims define it
\* Absolute tick of message i: the delta ticks of all messages up to it.
RECURSIVE TickAt(_, _)
TickAt(msgs, i) == IF i = 0 THEN 0 ELSE TickAt(msgs, i - 1) + msgs[i].ticks

\* Indices of the SetTempo messages of a file, in file order.
SetTempoAt(msgs) == {i \in 1..Len(msgs) : msgs[i].type = "set_tempo"}

\* End of the segment that starts at the SetTempo message i: the tick of the
\* next SetTempo message, the total tick length for the last one.
SegmentEnd(msgs, i) ==
    LET later == {j \in SetTempoAt(msgs) : j > i}
    IN IF later = {} THEN TickAt(msgs, Len(msgs))
       ELSE TickAt(msgs, CHOOSE j \in later : \A k \in later : j <= k)

\* dur_i = (tick_{i+1} - tick_i) * tempo_i / (1000000 * PPQN).
SegmentDur(msgs, i) ==
    Rat((SegmentEnd(msgs, i) - TickAt(msgs, i)) * msgs[i].tempo,
        1000000 * 480)

RECURSIVE SumOver(_, _, _)
SumOver(S, msgs, weighted) ==
    IF S = {} THEN Zero
    ELSE LET i == CHOOSE x \in S : TRUE
             term == IF weighted
                     THEN FMul(Rat(60000000, msgs[i].tempo),
                               SegmentDur(msgs, i))
                     ELSE SegmentDur(msgs, i)
         IN FAdd(term, SumOver(S \ {i}, msgs, weighted))

\* sum(dur_i) and sum(bpm_i * dur_i) / sum(dur_i).
WeightedDuration(msgs) == SumOver(SetTempoAt(msgs), msgs, FALSE)

TickWeightedBpm(msgs) ==
    FDiv(SumOver(SetTempoAt(msgs), msgs, TRUE), WeightedDuration(msgs))

\* --------------------------------------------------------------------- C10
\* C10: in BPM mode with a desired BPM d > 0 the tempo factor is o / d for
\* the estimator's BPM o of the file, so that typing the estimated BPM of a
\* file gives the factor 1.
FactorIsEstimateOverDesired ==
    ( /\ tempo.asked
      /\ tempo.mode = "BPM"
      /\ tempo.text.kind = "num"
      /\ tempo.text.val.n > 0 ) =>
        /\ tempo.factor = FDiv(EstimateMidiBpm(tempo.file), tempo.text.val)
        /\ tempo.text.val = EstimateMidiBpm(tempo.file) => tempo.factor = One

\* --------------------------------------------------------------------- C11
\* C11: for a parsed file with at least one SetTempo and a non-zero total
\* weighted duration, the estimator returns sum(bpm_i * dur_i) / sum(dur_i)
\* over the tempo breakpoints at their absolute ticks (all messages counted),
\* the last segment ending at the total tick length.
EstimateIsTickWeightedMean ==
    ( /\ tempo.estimated
      /\ tempo.file.ok
      /\ SetTempoAt(tempo.file.msgs) # {}
      /\ WeightedDuration(tempo.file.msgs) # Zero ) =>
        tempo.estimate = TickWeightedBpm(tempo.file.msgs)

\* --------------------------------------------------------------------- C12
\* C12: for a file whose SetTempo messages all encode the same tempo t, the
\* estimator returns 60000000 / t, also for a zero-length track and for a
\* single SetTempo at the very end.
UniformTempoIsExact ==
    ( /\ tempo.estimated
      /\ tempo.file.ok
      /\ SetTempoAt(tempo.file.msgs) # {} ) =>
        \A t \in TempoValues :
            (\A i \in SetTempoAt(tempo.file.msgs) :
                tempo.file.msgs[i].tempo = t)
              => tempo.estimate = Rat(60000000, t)

\* --------------------------------------------------------------------- C13
\* C13: the tempo factor is strictly positive: what calculate_tempo_factor
\* returns is > 0 for every text, mode and file, and the factor a playback
\* session uses is > 0 for every tempo_factor given to play().
FactorStrictlyPositive ==
    /\ tempo.asked => FPositive(tempo.factor)
    /\ \A w \in WorkerIds : workers[w].pc # "none" => workers[w].factor > 0

\* --------------------------------------------------------------------- C14
\* C14: in Percentage mode the factor is 100 / p for a number p > 0 (the
\* float quotient, 0.0 for p = inf) and exactly 1.0 for every other text:
\* p <= 0, nan, no number, empty, blank or missing.
PercentageFactorIsHundredOverP ==
    (tempo.asked /\ tempo.mode = "Percentage") =>
        LET text == tempo.text
        IN IF text.kind = "num" /\ text.val.n > 0
           THEN tempo.factor = Rat(100 * text.val.d, text.val.n)
           ELSE IF text.kind = "inf"
           THEN tempo.factor = Zero
           ELSE tempo.factor = One

\* 50 percent was asked for and the factor is 2.
PercentageFactorWitness ==
    /\ tempo.asked
    /\ tempo.mode = "Percentage"
    /\ tempo.text = Num(Rat(50, 1))
    /\ tempo.factor = Rat(2, 1)
    /\ DetectOriginalBpm(tempo.file) = Rat(240, 1)

\* --------------------------------------------------------------------- C15
\* C15: a stop() call made while no worker is alive (never played, or the
\* last worker has terminated) changes neither the stop flag, the worker
\* reference, the mute flags nor any worker, returns at once, and leaves the
\* player in a state in which play() is accepted.
StopWhileIdleIsNoOp ==
    [][ ( /\ \A w \in WorkerIds : workers[w].pc \in {"none", "done"}
          /\ (StopBegin \/ StopIdle) )
        => /\ UNCHANGED << stop_flag, play_thread, mute_drums, mute_others,
                           workers, nSessions >>
           /\ ctl' = "idle"
           /\ \/ play_thread' = NoThread
              \/ workers'[play_thread'].pc = "done" ]_vars

\* stop() found nothing to stop: the session had played to its end by
\* itself and was never stopped.
StopWhileIdleWitness ==
    /\ log = "no_active"
    /\ play_thread # NoThread
    /\ workers[play_thread].pc = "done"
    /\ ~stop_flag

\* --------------------------------------------------------------------- C16
\* C16: a play() call with a file that cannot be parsed spawns no worker,
\* acquires no sink, and leaves the stop flag, the worker reference and the
\* mute flags as they were, so that the player stays idle.
PlayOfBadFileChangesNothing ==
    [][ (\E f \in Factors : Play("bad", f))
        => UNCHANGED << stop_flag, play_thread, mute_drums, mute_others,
                        workers, nSessions, ctl >> ]_vars

\* The load error was logged by an idle player after a completed stop():
\* the stop flag is still set, no second worker exists.
PlayOfBadFileWitness ==
    /\ log = "load_error"
    /\ stop_flag
    /\ play_thread = NoThread
    /\ nSessions = 1
    /\ workers[1].pc = "done"

\* --------------------------------------------------------------------- C17
\* play() is accepted: no stop() is in progress and no worker is referenced
\* that is still alive.
AcceptsPlay ==
    /\ ctl = "idle"
    /\ play_thread = NoThread \/ workers[play_thread].pc = "done"

\* Session w has ended and its sink was acquired and released once.
Ended(w) ==
    /\ workers[w].pc = "done"
    /\ workers[w].acquired = 1
    /\ workers[w].released = 1

NoSecondWaitAfterCancel ==
    [][ \A w \in WorkerIds :
          ~ ( /\ Cancelled(w)
              /\ workers[w].pc = "loop"
              /\ workers'[w].pc = "sleep" ) ]_vars

\* --------------------------------------------------------------------- C19
\* C19: the worker of a session for which stop() has not been called since
\* its play() finds the stop flag clear at every one of its steps, also
\* after an earlier stop(), and leaves its loop only after the last message
\* of the file.
FreshSessionNeverSeesStaleFlag ==
    [][ \A w \in WorkerIds :
          ( /\ w = play_thread
            /\ ctl = "idle"
            /\ workers'[w] # workers[w] )
          => /\ ~stop_flag
             /\ workers'[w].pc = "delete"
                   => workers[w].idx = Len(MidiFile(workers[w].file)) + 1
      ]_vars

\* The second session, started after a stop() whose join had timed out, has
\* evaluated its whole file without being stopped.
FreshSessionWitness ==
    /\ nTimeouts = 1
    /\ play_thread = 2
    /\ ctl = "idle"
    /\ workers[2].pc = "delete"
    /\ workers[2].idx = 5
    /\ workers[2].sent = << 1, 2, 3, 4 >>

====
